---- MODULE Spec2Model ----
(***************************************************************************)
(* Model of nm-configurator: the build-time generator (generate_conf.rs)   *)
(* that validates interfaces and appends host records to the host mapping  *)
(* file, and the run-time apply phase (apply_conf.rs) that parses the      *)
(* mapping, identifies the host by MAC address and copies its connection   *)
(* files into the destination directory.                                   *)
(*                                                                         *)
(* Strings are sequences of one-symbol strings, so that case folding,      *)
(* substring replacement, file stems and extensions are computed as the    *)
(* Rust standard library computes them.                                    *)
(***************************************************************************)
EXTENDS Integers, Sequences, FiniteSets, TLC

VARIABLES
    mappingFile,   \* text of <source_dir>/host_config.yaml: a sequence of lines (empty: no file yet)
    srcDir,        \* hostname -> set of directory entries of <source_dir>/<hostname>
    nics,          \* what NetworkInterface::show() returns on this machine
    destExists,    \* whether destination_dir exists
    dest,          \* file name -> [contents, mode] of the files in destination_dir
    pc,            \* position of apply / generate
    hosts,         \* apply: the parsed Vec<Host>
    host,          \* apply: the identified Host, as an Option
    todo,          \* copy_connection_files: entries read_dir has not yielded yet
    installed,     \* copy_connection_files: one record per file written, in order
    err,           \* the error the run returned, or NoError
    skipNone,      \* whether types::Interface omits an absent mac_address when serialized
    appended,      \* generate: the Host records handed to store_network_mapping, in order
    genInput       \* generate: the interface list of the document processed last

vars == <<mappingFile, srcDir, nics, destExists, dest, pc, hosts, host, todo,
          installed, err, skipNone, appended, genInput>>

\* Option<T>: None, or Some(x)
None == <<>>
Some(x) == <<x>>
unwrap_or_default(o) == IF o = None THEN <<>> ELSE o[1]

NoError == <<>>

-----------------------------------------------------------------------------
(* Bounds of the model *)

MaxHosts == 2
MaxIfaces == 2
MaxNics == 2
MaxGenIfaces == 3
MaxDocIfaces == 2
MaxFiles == 2
MaxAppends == 2

-----------------------------------------------------------------------------
(* Strings *)

\* char::to_lowercase on the symbols the model uses
LowerChar(c) ==
    CASE c = "A" -> "a"
      [] c = "B" -> "b"
      [] OTHER -> c

\* str::to_lowercase
to_lowercase(s) == [i \in 1..Len(s) |-> LowerChar(s[i])]

\* str::replace: every non-overlapping match of `from`, left to right
RECURSIVE replace(_, _, _)
replace(s, from, to) ==
    IF from = <<>>
    THEN IF s = <<>> THEN to ELSE to \o <<Head(s)>> \o replace(Tail(s), from, to)
    ELSE IF Len(s) < Len(from) THEN s
    ELSE IF SubSeq(s, 1, Len(from)) = from
         THEN to \o replace(SubSeq(s, Len(from) + 1, Len(s)), from, to)
         ELSE <<Head(s)>> \o replace(Tail(s), from, to)

\* [String]::join
RECURSIVE join(_, _)
join(strs, sep) ==
    IF strs = <<>> THEN <<>>
    ELSE IF Len(strs) = 1 THEN strs[1]
    ELSE strs[1] \o sep \o join(Tail(strs), sep)

-----------------------------------------------------------------------------
(* Paths: a path inside a directory is its file name *)

CONNECTION_FILE_EXT == <<"nmconnection">>

\* position of the last "." of a file name, 0 when there is none
LastDot(name) ==
    LET dots == {i \in 1..Len(name) : name[i] = "."}
    IN IF dots = {} THEN 0 ELSE CHOOSE i \in dots : \A j \in dots : j <= i

\* Path::extension: None without an embedded ".", or when the only "." leads
extension(name) ==
    IF LastDot(name) <= 1 THEN None
    ELSE Some(SubSeq(name, LastDot(name) + 1, Len(name)))

\* Path::file_stem
file_stem(name) ==
    IF LastDot(name) <= 1 THEN name
    ELSE SubSeq(name, 1, LastDot(name) - 1)

\* Path::with_extension: the stem of the name, then "." and the new extension
with_extension(name, ext) == file_stem(name) \o <<".">> \o ext

-----------------------------------------------------------------------------
(* The host mapping file as text: a sequence of lines, each a tuple of the  *)
(* line's fixed part and, for a scalar, its value.                          *)

\* serde_yaml::to_writer of one types::Interface, as an item of a block sequence.
\* An absent mac_address is written as null, or left out when types::Interface
\* skips absent fields.
SerializeInterface(i, skip) ==
    <<  <<"  - logical_name:", i.logical_name>>  >>
    \o (IF i.mac_address # None THEN << <<"    mac_address:", i.mac_address[1]>> >>
        ELSE IF skip THEN <<>>
        ELSE << <<"    mac_address: null">> >>)
    \o << <<"    interface_type:", i.interface_type>> >>

RECURSIVE SerializeInterfaces(_, _)
SerializeInterfaces(is, skip) ==
    IF is = <<>> THEN <<>>
    ELSE SerializeInterface(Head(is), skip) \o SerializeInterfaces(Tail(is), skip)

\* serde_yaml::to_writer of the one-element array [Host { hostname, interfaces }]
to_writer(h, skip) ==
    <<  <<"- hostname:", h.hostname>>  >>
    \o (IF h.interfaces = <<>> THEN << <<"  interfaces: []">> >>
        ELSE << <<"  interfaces:">> >> \o SerializeInterfaces(h.interfaces, skip))

IsLine(text, i, fixed) == i <= Len(text) /\ text[i][1] = fixed

ParseErr == [ok |-> FALSE, val |-> <<>>, next |-> 0]

\* Deserialize for apply_conf::Interface { logical_name: String, mac_address: String }:
\* both fields are required strings, any other key is ignored.
RECURSIVE DeserializeInterfaces(_, _)
DeserializeInterfaces(text, i) ==
    IF ~IsLine(text, i, "  - logical_name:")
    THEN [ok |-> TRUE, val |-> <<>>, next |-> i]
    ELSE LET hasMac == IsLine(text, i + 1, "    mac_address:")
             isNull == IsLine(text, i + 1, "    mac_address: null")
             j == IF hasMac \/ isNull THEN i + 2 ELSE i + 1
             k == IF IsLine(text, j, "    interface_type:") THEN j + 1 ELSE j
             rest == DeserializeInterfaces(text, k)
         IN IF ~hasMac \/ ~rest.ok THEN ParseErr
            ELSE [ok |-> TRUE,
                  val |-> << [logical_name |-> text[i][2],
                              mac_address |-> text[i + 1][2]] >> \o rest.val,
                  next |-> rest.next]

\* Deserialize for Vec<apply_conf::Host>, with `hostname` renamed to `name`
RECURSIVE DeserializeHosts(_, _)
DeserializeHosts(text, i) ==
    IF i > Len(text) THEN [ok |-> TRUE, val |-> <<>>, next |-> i]
    ELSE IF ~IsLine(text, i, "- hostname:") THEN ParseErr
    ELSE LET ifs == IF IsLine(text, i + 1, "  interfaces: []")
                    THEN [ok |-> TRUE, val |-> <<>>, next |-> i + 2]
                    ELSE IF IsLine(text, i + 1, "  interfaces:")
                    THEN DeserializeInterfaces(text, i + 2)
                    ELSE ParseErr
             rest == IF ifs.ok THEN DeserializeHosts(text, ifs.next) ELSE ParseErr
         IN IF ~rest.ok THEN ParseErr
            ELSE [ok |-> TRUE,
                  val |-> << [name |-> text[i][2], interfaces |-> ifs.val] >> \o rest.val,
                  next |-> rest.next]

\* fs::File::open followed by serde_yaml::from_reader::<Vec<Host>>
from_reader(file) ==
    IF file = <<>> THEN ParseErr ELSE DeserializeHosts(file, 1)

\* parse_config: the hosts of the file with every mac_address lower-cased
parse_config(file) ==
    LET r == from_reader(file)
    IN IF ~r.ok THEN r
       ELSE [r EXCEPT !.val =
                [h \in 1..Len(r.val) |->
                    [r.val[h] EXCEPT !.interfaces =
                        [i \in 1..Len(r.val[h].interfaces) |->
                            [r.val[h].interfaces[i] EXCEPT
                                !.mac_address = to_lowercase(@)]]]]]

-----------------------------------------------------------------------------
(* apply_conf.rs *)

\* nic.mac_addr.clone().is_some_and(|addr| addr == interface.mac_address)
MacMatches(nic, interface) ==
    nic.mac_addr # None /\ nic.mac_addr[1] = interface.mac_address

\* the closure of identify_host's find
HostMatches(h, ns) ==
    \E i \in 1..Len(h.interfaces) : \E n \in 1..Len(ns) :
        MacMatches(ns[n], h.interfaces[i])

\* Iterator::find: the first element of s satisfying the test, as an index (0: none)
FirstIndex(S) == IF S = {} THEN 0 ELSE CHOOSE i \in S : \A j \in S : i <= j

\* identify_host with the last matching host taken instead of the first
identify_host_last(hs, ns) ==
    LET M == {h \in 1..Len(hs) : HostMatches(hs[h], ns)}
    IN IF M = {} THEN None ELSE Some(hs[CHOOSE k \in M : \A j \in M : j <= k])

\* identify_host: the first host, in store order, with a matching interface
identify_host(hs, ns) ==
    LET k == FirstIndex({h \in 1..Len(hs) : HostMatches(hs[h], ns)})
    IN IF k = 0 THEN None ELSE Some(hs[k])

\* host.interfaces.iter().find(|interface| interface.logical_name == stem)
FindInterface(h, stem) ==
    FirstIndex({i \in 1..Len(h.interfaces) : h.interfaces[i].logical_name = stem})

\* network_interfaces.iter().find(|nic| mac matches && nic.name != logical_name)
FindRenamedNic(ns, interface) ==
    FirstIndex({n \in 1..Len(ns) :
        MacMatches(ns[n], interface) /\ ns[n].name # interface.logical_name})

\* whether the loop of copy_connection_files ignores the entry
Ignored(entry) ==
    entry.is_dir \/ unwrap_or_default(extension(entry.name)) # CONNECTION_FILE_EXT

\* the (contents, destination) copy_connection_files computes for one profile
Resolve(h, ns, entry) ==
    LET stem == file_stem(entry.name)
        i == FindInterface(h, stem)
        n == IF i = 0 THEN 0 ELSE FindRenamedNic(ns, h.interfaces[i])
    IN IF n # 0
       THEN [contents |-> replace(entry.contents, h.interfaces[i].logical_name, ns[n].name),
             destination |-> with_extension(ns[n].name, CONNECTION_FILE_EXT),
             renamed |-> TRUE]
       ELSE [contents |-> entry.contents,
             destination |-> with_extension(stem, CONNECTION_FILE_EXT),
             renamed |-> FALSE]

\* permission bits
OwnerRW == {"ur", "uw"}
Umasks == { {"gw", "ow"}, {"gr", "gw", "gx", "or", "ow", "ox"} }

\* OpenOptions::new().create(true).write(true).mode(0o600).open(): an existing file
\* is opened as it is (its mode and length kept); a new one gets mode 0o600 & ~umask
OpenFile(d, path, umask) ==
    IF path \in DOMAIN d THEN d[path]
    ELSE [contents |-> <<>>, mode |-> OwnerRW \ umask]

\* write_all from offset 0: the bytes written replace a prefix of the file
write_all(file, contents) ==
    [file EXCEPT !.contents =
        contents \o SubSeq(@, Len(contents) + 1, Len(@))]

ApplyUnchanged == UNCHANGED <<mappingFile, srcDir, nics, skipNone, appended, genInput>>

\* apply: parse_config(source_dir, HOST_MAPPING_FILE).context("Parsing config")?
ParseConfig ==
    /\ pc = "apply"
    /\ LET r == parse_config(mappingFile)
       IN IF r.ok
          THEN /\ hosts' = r.val
               /\ pc' = "parsed"
               /\ err' = err
          ELSE /\ hosts' = hosts
               /\ pc' = "failed"
               /\ err' = <<"Parsing config">>
    /\ UNCHANGED <<destExists, dest, host, todo, installed>>
    /\ ApplyUnchanged

\* apply with the destination directory created before the host is identified
IdentifyHostAfterCreateDir ==
    /\ pc = "parsed"
    /\ destExists' = TRUE
    /\ LET h == identify_host(hosts, nics)
       IN IF h = None
          THEN /\ host' = host
               /\ pc' = "failed"
               /\ err' = <<"None of the preconfigured hosts match local NICs">>
          ELSE /\ host' = h
               /\ pc' = "identified"
               /\ err' = err
    /\ UNCHANGED <<dest, hosts, todo, installed>>
    /\ ApplyUnchanged

\* apply: NetworkInterface::show()?, then identify_host(...).ok_or_else(...)?
IdentifyHost ==
    /\ pc = "parsed"
    /\ LET h == identify_host(hosts, nics)
       IN IF h = None
          THEN /\ host' = host
               /\ pc' = "failed"
               /\ err' = <<"None of the preconfigured hosts match local NICs">>
          ELSE /\ host' = h
               /\ pc' = "identified"
               /\ err' = err
    /\ UNCHANGED <<destExists, dest, hosts, todo, installed>>
    /\ ApplyUnchanged

\* copy_connection_files: fs::create_dir_all(destination_dir), then fs::read_dir
CreateDestDir ==
    /\ pc = "identified"
    /\ destExists' = TRUE
    /\ IF host[1].name \in DOMAIN srcDir
       THEN /\ todo' = srcDir[host[1].name]
            /\ pc' = "copying"
            /\ err' = err
       ELSE /\ todo' = todo
            /\ pc' = "failed"
            /\ err' = <<"read_dir">>
    /\ UNCHANGED <<dest, hosts, host, installed>>
    /\ ApplyUnchanged

\* copy_connection_files: one iteration of the loop over the directory entries
CopyEntry ==
    /\ pc = "copying"
    /\ \E entry \in todo :
        /\ todo' = todo \ {entry}
        /\ IF Ignored(entry)
           THEN UNCHANGED <<dest, installed>>
           ELSE \E umask \in Umasks :
                LET r == Resolve(host[1], nics, entry)
                    file == OpenFile(dest, r.destination, umask)
                IN /\ dest' = (r.destination :> write_all(file, r.contents)) @@ dest
                   /\ installed' = Append(installed,
                          [source |-> entry.name,
                           destination |-> r.destination,
                           contents |-> r.contents,
                           renamed |-> r.renamed])
    /\ UNCHANGED <<destExists, pc, hosts, host, err>>
    /\ ApplyUnchanged

\* copy_connection_files and apply return Ok(())
Finish ==
    /\ pc = "copying"
    /\ todo = {}
    /\ pc' = "done"
    /\ UNCHANGED <<destExists, dest, hosts, host, todo, installed, err>>
    /\ ApplyUnchanged

Next == ParseConfig \/ IdentifyHost \/ CreateDestDir \/ CopyEntry \/ Finish

-----------------------------------------------------------------------------
(* generate_conf.rs *)

Ethernet == "ethernet"
Loopback == "loopback"

\* extract_interfaces: the interfaces of the document that are not loopbacks
IsNotLoopback(i) == i.interface_type # Loopback
extract_interfaces(network_state) == SelectSeq(network_state, IsNotLoopback)

IsEthernet(i) == i.interface_type = Ethernet
HasNoMac(i) == i.mac_address = None

Ok == <<>>

\* validate_interfaces with the MAC address required of every interface, not only of
\* the ethernet ones
validate_interfaces_any_type(interfaces) ==
    LET ethernet_interfaces == SelectSeq(interfaces, IsEthernet)
        without_mac == SelectSeq(interfaces, HasNoMac)
        names == [k \in 1..Len(without_mac) |-> without_mac[k].logical_name]
    IN IF ethernet_interfaces = <<>>
       THEN <<"No Ethernet interfaces were provided">>
       ELSE IF without_mac # <<>>
       THEN <<"Detected Ethernet interfaces without a MAC address: ">>
            \o join(names, <<",", " ">>)
       ELSE Ok

\* validate_interfaces: Ok, or the error message
validate_interfaces(interfaces) ==
    LET ethernet_interfaces == SelectSeq(interfaces, IsEthernet)
        without_mac == SelectSeq(ethernet_interfaces, HasNoMac)
        names == [k \in 1..Len(without_mac) |-> without_mac[k].logical_name]
    IN IF ethernet_interfaces = <<>>
       THEN <<"No Ethernet interfaces were provided">>
       ELSE IF without_mac # <<>>
       THEN <<"Detected Ethernet interfaces without a MAC address: ">>
            \o join(names, <<",", " ">>)
       ELSE Ok

\* the NetworkManager profiles the translation engine returns for a document:
\* one <name>.nmconnection per interface, naming the interface in its text
gen_conf(interfaces) ==
    { [name |-> interfaces[k].logical_name \o <<".">> \o CONNECTION_FILE_EXT,
       is_dir |-> FALSE,
       contents |-> interfaces[k].logical_name] : k \in 1..Len(interfaces) }

\* store_network_mapping: the mapping file with [Host] appended
store_network_mapping(file, h, skip) == file \o to_writer(h, skip)

HostNames == << <<"n", "1">>, <<"n", "2">>, <<"n", "3">>, <<"n", "4">> >>

e0 == <<"e", "0">>
e1 == <<"e", "1">>
vlan == <<"e", "0", ".", "1">>
br == <<"b", "r">>

SeqsUpTo(S, n) == UNION {[1..k -> S] : k \in 0..n}

\* the interface lists of the network-state documents the generator is given
Documents ==
    SeqsUpTo([logical_name : {e0, e1},
              mac_address : {None, Some(<<"A", "1">>)},
              interface_type : {Ethernet, "bond", Loopback}], MaxDocIfaces)

GenUnchanged == UNCHANGED <<nics, destExists, dest, hosts, host, todo, installed>>

\* generate: one iteration of the loop over the config directory
GenerateEntry ==
    /\ pc = "generate"
    /\ Len(appended) < MaxAppends
    /\ \E doc \in Documents :
        LET interfaces == extract_interfaces(doc)
            v == validate_interfaces(interfaces)
            hostname == HostNames[Len(appended) + 1]
            h == [hostname |-> hostname, interfaces |-> interfaces]
        IN /\ genInput' = interfaces
           /\ IF v # Ok
              THEN /\ err' = v
                   /\ pc' = "failed"
                   /\ UNCHANGED <<mappingFile, srcDir, appended>>
              ELSE /\ srcDir' = (hostname :> gen_conf(doc)) @@ srcDir
                   /\ mappingFile' = store_network_mapping(mappingFile, h, skipNone)
                   /\ appended' = Append(appended, h)
                   /\ UNCHANGED <<err, pc>>
    /\ UNCHANGED skipNone
    /\ GenUnchanged

\* generate: the config directory holds no entry
GenerateEmptyDir ==
    /\ pc = "generate"
    /\ appended = <<>>
    /\ err' = <<"Empty config directory">>
    /\ pc' = "failed"
    /\ UNCHANGED <<mappingFile, srcDir, skipNone, appended, genInput>>
    /\ GenUnchanged

\* the output subdirectory of the configuration shared by all nodes
ALL_NODES_DIR == <<"_all">>

\* generate: the config directory holds the all-nodes file alone; its profiles are
\* stored and no mapping is written
GenerateAllNodes ==
    /\ pc = "generate"
    /\ appended = <<>>
    /\ \E doc \in Documents :
        LET interfaces == extract_interfaces(doc)
            v == validate_interfaces(interfaces)
        IN /\ genInput' = interfaces
           /\ IF v # Ok
              THEN /\ err' = v
                   /\ pc' = "failed"
                   /\ UNCHANGED srcDir
              ELSE /\ srcDir' = (ALL_NODES_DIR :> gen_conf(doc)) @@ srcDir
                   /\ pc' = "generated"
                   /\ UNCHANGED err
    /\ UNCHANGED <<mappingFile, skipNone, appended>>
    /\ GenUnchanged

\* generate returns Ok(()) once every entry is processed
GenerateDone ==
    /\ pc = "generate"
    /\ appended # <<>>
    /\ pc' = "generated"
    /\ UNCHANGED <<mappingFile, srcDir, err, skipNone, appended, genInput>>
    /\ GenUnchanged

NextGen == GenerateEmptyDir \/ GenerateAllNodes \/ GenerateEntry \/ GenerateDone

InitGen ==
    /\ pc = "generate"
    /\ mappingFile = <<>>
    /\ srcDir = <<>>
    /\ nics = <<>>
    /\ destExists = FALSE
    /\ dest = <<>>
    /\ hosts = <<>>
    /\ host = None
    /\ todo = {}
    /\ installed = <<>>
    /\ err = NoError
    /\ skipNone \in BOOLEAN
    /\ appended = <<>>
    /\ genInput = <<>>

SpecGen == InitGen /\ [][NextGen]_vars

\* the interface lists validate_interfaces is applied to
InterfaceLists ==
    SeqsUpTo([logical_name : {e0, e1},
              mac_address : {None, Some(<<"A", "1">>)},
              interface_type : {Ethernet, "bond", "vlan"}], MaxGenIfaces)

\* generate_config: validate_interfaces(&interfaces)?
ValidateInterfaces ==
    /\ pc = "validate"
    /\ err' = validate_interfaces(genInput)
    /\ pc' = "validated"
    /\ UNCHANGED <<mappingFile, srcDir, skipNone, appended, genInput>>
    /\ GenUnchanged

NextValidate == ValidateInterfaces

InitValidate ==
    /\ pc = "validate"
    /\ genInput \in InterfaceLists
    /\ mappingFile = <<>>
    /\ srcDir = <<>>
    /\ nics = <<>>
    /\ destExists = FALSE
    /\ dest = <<>>
    /\ hosts = <<>>
    /\ host = None
    /\ todo = {}
    /\ installed = <<>>
    /\ err = NoError
    /\ skipNone = FALSE
    /\ appended = <<>>

SpecValidate == InitValidate /\ [][NextValidate]_vars

-----------------------------------------------------------------------------
(* The machines apply runs on *)

RECURSIVE Concat(_)
Concat(ss) == IF ss = <<>> THEN <<>> ELSE Head(ss) \o Concat(Tail(ss))

\* the mapping file the generator leaves for a store of hosts
MappingOf(store) ==
    Concat([k \in 1..Len(store) |->
        to_writer([hostname |-> store[k].hostname,
                   interfaces |-> [i \in 1..Len(store[k].interfaces) |->
                       [logical_name |-> store[k].interfaces[i].logical_name,
                        mac_address |-> Some(store[k].interfaces[i].mac_address),
                        interface_type |-> Ethernet]]], FALSE)])

Profile(name, contents) ==
    [name |-> name \o <<".">> \o CONNECTION_FILE_EXT, is_dir |-> FALSE, contents |-> contents]

\* directory entries a host's source subdirectory may hold
Entries ==
    { Profile(e0, <<"e", "0", "=", "e", "0", ".", "1">>),
      Profile(e1, <<"e", "1">>),
      Profile(vlan, <<"e", "0", ".", "1", "@", "e", "0">>),
      [name |-> <<"d">>, is_dir |-> TRUE, contents |-> <<>>],
      [name |-> <<"e", "0", ".", "bak">>, is_dir |-> FALSE, contents |-> <<"e", "0">>] }

\* what the destination directory may hold before the run
OldFile == [contents |-> <<"o", "l", "d", "o", "l", "d", "o", "l", "d">>,
            mode |-> {"ur", "uw", "gr", "or"}]
Destinations ==
    { [exists |-> FALSE, files |-> <<>>],
      [exists |-> TRUE, files |-> <<>>],
      [exists |-> TRUE, files |-> (e1 \o <<".">> \o CONNECTION_FILE_EXT) :> OldFile] }

InitApply(Stores, Live, Dirs, Dests) ==
    /\ pc = "apply"
    /\ \E store \in Stores :
        /\ mappingFile = MappingOf(store)
        /\ \E dirs \in [{store[k].hostname : k \in 1..Len(store)} -> Dirs] : srcDir = dirs
    /\ nics \in Live
    /\ \E d \in Dests : destExists = d.exists /\ dest = d.files
    /\ hosts = <<>>
    /\ host = None
    /\ todo = {}
    /\ installed = <<>>
    /\ err = NoError
    /\ skipNone = FALSE
    /\ appended = <<>>
    /\ genInput = <<>>

\* interface lists of a host: logical names are distinct and their order is fixed,
\* since the host's interfaces are looked up by logical name
NameRank(n) == CHOOSE k \in 1..4 : <<e0, e1, vlan, br>>[k] = n
HostInterfaces(Names, Macs, n) ==
    {q \in UNION {[1..k -> [logical_name : Names, mac_address : Macs]] : k \in 1..n} :
        \A i, j \in 1..Len(q) : i < j => NameRank(q[i].logical_name) < NameRank(q[j].logical_name)}

\* the interfaces of a machine: the operating system gives each its own name
LiveInterfaces(Names, Macs, n) ==
    {q \in SeqsUpTo([name : Names, mac_addr : Macs], n) :
        \A i, j \in 1..Len(q) : i # j => q[i].name # q[j].name}

\* materialization: one host, any profiles, any destination
Init ==
    InitApply(
        { << [hostname |-> HostNames[1], interfaces |-> is] >> :
            is \in HostInterfaces({e0, e1, vlan}, {<<"a", "1">>, <<"b", "2">>}, MaxIfaces) },
        LiveInterfaces({e0, e1, br}, {Some(<<"a", "1">>), Some(<<"b", "2">>)}, MaxNics),
        {d \in SUBSET Entries : Cardinality(d) <= MaxFiles},
        Destinations)

Spec == Init /\ [][Next]_vars

\* identification: several hosts, MAC addresses in either letter case
IdentifyStores ==
    LET Ifaces == HostInterfaces({e0, e1}, {<<"A", "1">>, <<"b", "2">>}, MaxIfaces)
    IN UNION { {[h \in 1..n |-> [hostname |-> HostNames[h], interfaces |-> is[h]]] :
                   is \in [1..n -> Ifaces]} : n \in 1..MaxHosts }

InitIdentify ==
    InitApply(
        IdentifyStores,
        LiveInterfaces({e0, br},
                       {None, Some(<<"a", "1">>), Some(<<"A", "1">>), Some(<<"b", "2">>)},
                       MaxNics),
        { {Profile(e0, <<"e", "0">>)} },
        { [exists |-> FALSE, files |-> <<>>] })

SpecIdentify == InitIdentify /\ [][Next]_vars

-----------------------------------------------------------------------------
(* Properties *)

NoMatch == <<"None of the preconfigured hosts match local NICs">>
Identified == pc \in {"identified", "copying", "done"}

\* a host has an interface whose MAC address is the MAC address of a live interface
SharesMac(h) ==
    \E i \in DOMAIN h.interfaces : \E n \in DOMAIN nics :
        Some(h.interfaces[i].mac_address) = nics[n].mac_addr

\* C1: identify_host returns the first host, in store order, with an interface whose
\* MAC address is that of a live interface, and no host exactly when there is none
C1_IdentifyFirstMatch ==
    (Identified \/ pc = "failed") =>
        IF \E k \in DOMAIN hosts : SharesMac(hosts[k])
        THEN /\ Identified
             /\ \E k \in DOMAIN hosts :
                    /\ host = Some(hosts[k])
                    /\ SharesMac(hosts[k])
                    /\ \A j \in 1..(k - 1) : ~SharesMac(hosts[j])
        ELSE pc = "failed" /\ host = None /\ err = NoMatch

\* the second host is identified although the first one shares a logical name with a
\* live interface, next to a live interface without a MAC address
C1_Witness ==
    /\ pc = "identified"
    /\ Len(hosts) = 2
    /\ host = Some(hosts[2])
    /\ \E n \in DOMAIN nics : nics[n].mac_addr = None
    /\ \E i \in DOMAIN hosts[1].interfaces : \E n \in DOMAIN nics :
           nics[n].name = hosts[1].interfaces[i].logical_name

CasePairs == { <<"a", "A">>, <<"A", "a">>, <<"b", "B">>, <<"B", "b">> }
EqualUpToCase(x, y) ==
    /\ Len(x) = Len(y)
    /\ \A k \in 1..Len(x) : x[k] = y[k] \/ <<x[k], y[k]>> \in CasePairs

\* C2: a stored MAC address and a live MAC address that are equal up to letter case
\* are a match, so a host is identified
C2_CaseInsensitiveMatch ==
    (Identified \/ pc = "failed") =>
        LET stored == from_reader(mappingFile).val
        IN (\E h \in DOMAIN stored : \E i \in DOMAIN stored[h].interfaces :
               \E n \in DOMAIN nics :
                   /\ nics[n].mac_addr # None
                   /\ EqualUpToCase(stored[h].interfaces[i].mac_address, nics[n].mac_addr[1]))
           => host # None

Last == installed[Len(installed)]
SourceOf(r) == CHOOSE e \in srcDir[host[1].name] : e.name = r.source
Named(n) == n \o <<".">> \o CONNECTION_FILE_EXT

\* C3: a profile with stem S is renamed (S replaced by N in its content, written to
\* N.nmconnection) exactly when the host has an interface named S and a live interface
\* with that interface's MAC address has a name N other than S; otherwise the content
\* is written unchanged to S.nmconnection
C3_RenameExactlyWhen ==
    \A x \in DOMAIN installed :
        LET r == installed[x]
            S == file_stem(r.source)
            Targets == { nics[n].name : n \in
                           { n \in DOMAIN nics :
                               \E i \in DOMAIN host[1].interfaces :
                                   /\ host[1].interfaces[i].logical_name = S
                                   /\ nics[n].mac_addr = Some(host[1].interfaces[i].mac_address)
                                   /\ nics[n].name # S } }
        IN IF Targets # {}
           THEN \E N \in Targets :
                    /\ r.contents = replace(SourceOf(r).contents, S, N)
                    /\ r.destination = Named(N)
           ELSE /\ r.contents = SourceOf(r).contents
                /\ r.destination = Named(S)

\* C4: while no host is identified nothing is written and the destination directory is
\* not created, and without a matching host apply fails with the no-match error
C4_NoMatchNoWrite ==
    [][ /\ (host' = None => UNCHANGED <<destExists, dest>>)
        /\ (pc = "parsed" /\ (\A k \in DOMAIN hosts : ~SharesMac(hosts[k]))
               => pc' = "failed" /\ err' = NoMatch /\ host' = None) ]_vars

\* apply failed for want of a matching host, with profiles to copy and no destination
\* directory
C4_Witness ==
    /\ pc = "failed"
    /\ err = NoMatch
    /\ ~destExists
    /\ nics # <<>>
    /\ \E e \in srcDir[HostNames[1]] : ~Ignored(e)

\* C5: after a profile is written, the destination file holds exactly the written
\* content, whatever the path held before
C5_DestinationHoldsContent ==
    installed # <<>> => dest[Last.destination].contents = Last.contents

\* C6: after the run every destination file written has owner-only read/write
\* permission
C6_OwnerOnly ==
    pc = "done" =>
        \A x \in DOMAIN installed : dest[installed[x].destination].mode \subseteq OwnerRW

RECURSIVE Listing(_, _, _)
Listing(is, k, first) ==
    IF k > Len(is) THEN <<>>
    ELSE IF is[k].interface_type = "ethernet" /\ is[k].mac_address = None
    THEN (IF first THEN <<>> ELSE <<",", " ">>) \o is[k].logical_name
         \o Listing(is, k + 1, FALSE)
    ELSE Listing(is, k + 1, first)

\* C8: validate_interfaces fails with the no-Ethernet error when no interface is an
\* ethernet one; otherwise with the names of the ethernet interfaces without a MAC
\* address, in order, joined by ", ", when there are some; otherwise it succeeds
C8_ValidateInterfaces ==
    pc = "validated" =>
        IF \A k \in DOMAIN genInput : genInput[k].interface_type # "ethernet"
        THEN err = <<"No Ethernet interfaces were provided">>
        ELSE IF \E k \in DOMAIN genInput :
                    genInput[k].interface_type = "ethernet" /\ genInput[k].mac_address = None
        THEN err = <<"Detected Ethernet interfaces without a MAC address: ">>
                   \o Listing(genInput, 1, TRUE)
        ELSE err = Ok

\* two ethernet interfaces and another one lack a MAC address; the two are listed
C8_Witness ==
    /\ pc = "validated"
    /\ genInput = << [logical_name |-> e1, mac_address |-> None, interface_type |-> "ethernet"],
                     [logical_name |-> e0, mac_address |-> None, interface_type |-> "vlan"],
                     [logical_name |-> e0, mac_address |-> None, interface_type |-> "ethernet"] >>
    /\ err = <<"Detected Ethernet interfaces without a MAC address: ",
               "e", "1", ",", " ", "e", "0">>

\* C9: when a live interface has the profile's logical name and the MAC address of the
\* host interface of that name, the profile is written unchanged under its own stem
C9_SameNameNoRewrite ==
    \A x \in DOMAIN installed :
        LET r == installed[x]
            S == file_stem(r.source)
        IN (\E i \in DOMAIN host[1].interfaces : \E n \in DOMAIN nics :
               /\ host[1].interfaces[i].logical_name = S
               /\ nics[n].name = S
               /\ nics[n].mac_addr = Some(host[1].interfaces[i].mac_address))
           => /\ r.contents = SourceOf(r).contents
              /\ r.destination = Named(S)

\* C10: after a successful run distinct source profiles were written to distinct
\* destination paths
C10_DistinctDestinations ==
    pc = "done" =>
        \A x, y \in DOMAIN installed :
            x # y => installed[x].destination # installed[y].destination

====
